---- MODULE Spec2Model ----
(***************************************************************************)
(* A model of the aiplant backend: the Bluetooth adapter (connection,      *)
(* endpoint lookup, the read gate, the chunked model upload), the          *)
(* ingestion loop, and the EEPROM database (historical region loaded from  *)
(* a CSV source, live region held in a TTL cache).                         *)
(*                                                                         *)
(* The program is a single asyncio event loop: every action below is one   *)
(* run of a coroutine between two awaits, so it is atomic.                 *)
(***************************************************************************)
EXTENDS Integers, Sequences, FiniteSets, TLC

VARIABLES
    peripheral,         \* the GATT table of the AIPlant peripheral: a list of services
    sensorBytes,        \* what the two sensor endpoints currently hold: [moisture, temperature]
    svc,                \* Labeler._model as fitted at start-up: (temperature, moisture) -> label
    pcStart,            \* position of Dependencies.start_up
    startErr,           \* the exception that ended start_up, or "None"
    _device,            \* BluetoothAdapter._device (an address, or "None")
    _client,            \* BluetoothAdapter._client ("None" or "connected")
    _read_enabled,      \* BluetoothAdapter._read_enabled, the gate
    pcLoop,             \* position of EEPROMDatabase.connect._loop_tasks
    loopErr,            \* the exception that ended the loop task, or "None"
    readStartHeld,      \* history: the uploads holding the gate when the current read_data call started
    pcUp,               \* position of each send_data call
    upErr,              \* the exception that ended each send_data call, or "None"
    data,               \* the argument of each send_data call
    idx,                \* the index of the chunk each send_data call is at
    sent,               \* per send_data call, the fragments written to the model characteristic
    file,               \* the lines of the CSV source
    lineNo,             \* refresh(): number of lines consumed
    timestamp,          \* refresh(): the local variable timestamp
    _database,          \* EEPROMDatabase._database: None, or a dict in insertion order
    _real_time_samples, \* EEPROMDatabase._real_time_samples: the TTLCache
    now                 \* the clock (seconds)

vars == << peripheral, sensorBytes, svc, pcStart, startErr, _device, _client, _read_enabled,
           pcLoop, loopErr, readStartHeld, pcUp, upErr, data, idx, sent,
           file, lineNo, timestamp, _database, _real_time_samples, now >>

linkVars == << peripheral, sensorBytes, svc, _device, _client >>
upVars == << pcUp, upErr, data, idx, sent >>
loopVars == << pcLoop, loopErr, readStartHeld >>
refreshVars == << file, lineNo, timestamp >>

(***************************************************************************)
(* Bounds of the model.                                                    *)
(***************************************************************************)
\* the send_data calls that may overlap
NumUploads == 2
\* the longest artifact is MaxChunks full chunks plus one byte
MaxChunks == 2
\* the longest CSV source, in lines
MaxLines == 3
\* how many seconds of ingestion (loop sleeps) are followed
MaxTicks == 3

Uploads == 1..NumUploads

Min(a, b) == IF a < b THEN a ELSE b

(***************************************************************************)
(* Python helpers.                                                         *)
(***************************************************************************)
\* range(i, n, step) as a list
RECURSIVE range(_, _, _)
range(i, n, step) == IF i < n THEN <<i>> \o range(i + step, n, step) ELSE << >>

\* the slice s[i:j] of a list (0-based, end exclusive, clipped to the list)
Slice(s, i, j) == SubSeq(s, i + 1, Min(j, Len(s)))

\* str.startswith
startswith(s, prefix) == Len(s) >= Len(prefix) /\ SubSeq(s, 1, Len(prefix)) = prefix


\* the characters of a decimal digit string, and their values
Digits == << "0", "1", "2", "3", "4", "5", "6", "7", "8", "9" >>
DigitVal(c) == (CHOOSE d \in 1..10 : Digits[d] = c) - 1
IsDigitChar(c) == \E d \in 1..10 : Digits[d] = c

\* the value of a non-empty string of decimal digits
RECURSIVE DecimalValue(_)
DecimalValue(s) ==
    IF s = << >> THEN 0
    ELSE 10 * DecimalValue(SubSeq(s, 1, Len(s) - 1)) + DigitVal(s[Len(s)])

\* str.isdigit
isdigit(s) == s # << >> /\ \A i \in 1..Len(s) : IsDigitChar(s[i])

\* an outcome of an expression that may raise
Ok(v) == [err |-> "None", val |-> v]
Raise(e) == [err |-> e, val |-> 0]

(***************************************************************************)
(* aiplant/bluetooth/adapter.py                                            *)
(***************************************************************************)
_DEVICE_NAME == "AIPlant"
_READ_TYPE == "read"
_WRITE_TYPE == "write"
_MOISTURE_CHARACTERISTIC_UUID_PREFIX == << "0", "0", "0", "0", "1", "0", "0", "0" >>
_TEMPERATURE_CHARACTERISTIC_UUID_PREFIX == << "0", "0", "0", "0", "2", "0", "0", "0" >>
_MODEL_CHARACTERISTIC_UUID_PREFIX == << "0", "0", "0", "0", "3", "0", "0", "0" >>
\* "END__OF__MODEL__SEQUENCE".encode("utf-8")
_END_SEQUENCE ==
    << 69, 78, 68, 95, 95, 79, 70, 95, 95, 77, 79, 68, 69, 76, 95, 95,
       83, 69, 81, 85, 69, 78, 67, 69 >>
\* the literal 512 of send_data
ChunkSize == 512

\* BluetoothAdapter.client
client == IF _client = "None" THEN Raise("RuntimeError") ELSE Ok(_client)

\* BluetoothAdapter.ai_plant_service: the first service of the client.  A client
\* whose connect() has not succeeded has discovered no services, and
\* BleakClient.services raises BleakError.  With no service, next() raises
\* StopIteration, which leaves a coroutine as RuntimeError.
ai_plant_service ==
    IF client.err # "None" THEN client
    ELSE IF _client # "connected" THEN Raise("BleakError")
    ELSE IF peripheral = << >> THEN Raise("RuntimeError")
    ELSE Ok(peripheral[1])

\* next((c for c in characteristics if type in c.properties and
\*       c.uuid.startswith(prefix)), None), with 0 for None
FirstCharacteristic(characteristics, type, prefix) ==
    LET hits == { i \in 1..Len(characteristics) :
                    /\ type \in characteristics[i].properties
                    /\ startswith(characteristics[i].uuid, prefix) }
    IN  IF hits = {} THEN 0 ELSE CHOOSE i \in hits : \A j \in hits : i <= j

\* the three endpoint properties
Endpoint(type, prefix) ==
    IF ai_plant_service.err # "None" THEN ai_plant_service
    ELSE LET cs == ai_plant_service.val
             i == FirstCharacteristic(cs, type, prefix)
         IN  IF i = 0 THEN Raise("CharacteristicNotFound") ELSE Ok(cs[i])

moisture_sensor == Endpoint(_READ_TYPE, _MOISTURE_CHARACTERISTIC_UUID_PREFIX)
temperature_sensor == Endpoint(_READ_TYPE, _TEMPERATURE_CHARACTERISTIC_UUID_PREFIX)
model_characteristic == Endpoint(_WRITE_TYPE, _MODEL_CHARACTERISTIC_UUID_PREFIX)

chunk_data_mut(d, size) ==
    LET starts == range(0, Len(d), size)
    IN  [k \in 1..Len(starts) |-> Slice(d, starts[k], starts[k] + size + 1)]

chunk_data_reversed(d, size) ==
    LET starts == range(0, Len(d), size)
        n == Len(starts)
    IN  [k \in 1..n |-> Slice(d, starts[n + 1 - k], starts[n + 1 - k] + size)]

\* chunk_data: [data[i : i + size] for i in range(0, len(data), size)]
chunk_data(d, size) ==
    LET starts == range(0, Len(d), size)
    IN  [k \in 1..Len(starts) |-> Slice(d, starts[k], starts[k] + size)]

(***************************************************************************)
(* cachetools.TTLCache as EEPROMDatabase uses it: a list of links, oldest  *)
(* first, each with the time it expires.                                   *)
(***************************************************************************)
_TTL == 60 * 60 * 24 * 7
\* TTLCache(maxsize=...): the capacity of the live region, scaled down from the
\* program's 3,000,000 so that the cache can fill
maxsize == 3

\* TTLCache.expire: drop the links at the head that have expired
RECURSIVE cache_expire(_, _)
cache_expire(links, time) ==
    IF links # << >> /\ ~(time < links[1].expires)
    THEN cache_expire(Tail(links), time)
    ELSE links

cache_popitem_mut(links, time) ==
    LET live == cache_expire(links, time)
    IN  SubSeq(live, 1, Len(live) - 1)

\* TTLCache.popitem: expire, then drop the least recently set link
cache_popitem(links, time) == Tail(cache_expire(links, time))

\* Cache.__setitem__'s loop: while currsize + 1 > maxsize: popitem()
RECURSIVE cache_make_room(_, _)
cache_make_room(links, time) ==
    IF Len(links) + 1 > maxsize
    THEN cache_make_room(cache_popitem(links, time), time)
    ELSE links

cache_keys(links) == { links[i].key : i \in 1..Len(links) }

cache_setitem_mut(links, key, value, time) ==
    LET live == cache_expire(links, time)
        room == IF key \in cache_keys(live) THEN live ELSE cache_make_room(live, time)
    IN  Append(room, [key |-> key, value |-> value, expires |-> time + _TTL])

\* TTLCache.__setitem__: expire, make room for a new key, (re)link at the end
cache_setitem(links, key, value, time) ==
    LET live == cache_expire(links, time)
        room == IF key \in cache_keys(live) THEN live ELSE cache_make_room(live, time)
        rest == SelectSeq(room, LAMBDA l : l.key # key)
    IN  Append(rest, [key |-> key, value |-> value, expires |-> time + _TTL])

cache_iter_mut(links, time) == links

\* TTLCache.__iter__: the links that have not expired
cache_iter(links, time) == SelectSeq(links, LAMBDA l : time < l.expires)

\* TTLCache.__len__
cache_len(links, time) == Len(cache_iter(links, time))

(***************************************************************************)
(* aiplant/database/eeprom.py: the historical region                       *)
(***************************************************************************)
\* a dict in insertion order: d[key] = value
DictSet(items, key, value) ==
    IF \E i \in 1..Len(items) : items[i].key = key
    THEN [i \in 1..Len(items) |->
            IF items[i].key = key THEN [key |-> key, value |-> value] ELSE items[i]]
    ELSE Append(items, [key |-> key, value |-> value])

DictKeys(items) == { items[i].key : i \in 1..Len(items) }
DictGet(items, key) == (CHOOSE i \in 1..Len(items) : items[i].key = key)

\* str.split(sep): the fields of a line
RECURSIVE split(_, _)
split(s, sep) ==
    IF \E i \in 1..Len(s) : s[i] = sep
    THEN LET i == CHOOSE k \in 1..Len(s) : s[k] = sep /\ \A j \in 1..(k - 1) : s[j] # sep
         IN  <<SubSeq(s, 1, i - 1)>> \o split(SubSeq(s, i + 1, Len(s)), sep)
    ELSE <<s>>

IsSpace(c) == c \in {" ", "\n", "\t", "\r"}

\* str.strip
RECURSIVE strip(_)
strip(s) ==
    IF s # << >> /\ IsSpace(s[1]) THEN strip(Tail(s))
    ELSE IF s # << >> /\ IsSpace(s[Len(s)]) THEN strip(SubSeq(s, 1, Len(s) - 1))
    ELSE s

\* int(str): surrounding whitespace and a sign are accepted
int(s) ==
    LET t == strip(s)
        signed == t # << >> /\ t[1] \in {"-", "+"}
        digits == IF signed THEN Tail(t) ELSE t
    IN  IF ~isdigit(digits) THEN Raise("ValueError")
        ELSE IF signed /\ t[1] = "-" THEN Ok(0 - DecimalValue(digits))
        ELSE Ok(DecimalValue(digits))

\* bool(int)
bool(n) == n # 0

\* float(bytes.decode("utf-8")) on the sensors' payloads, which are decimal digit
\* strings; anything else raises ValueError
float(s) == IF isdigit(s) THEN Ok(DecimalValue(s)) ELSE Raise("ValueError")

\* the base and step of the timestamps refresh() makes up
RefreshBase == 1708063280
RefreshOffset == 10

stored_target_mut(target) == bool(int(strip(target)).val)

\* refresh(): target=not bool(int(target.strip()))
stored_target(target) == ~bool(int(strip(target)).val)

\* one line of refresh(): [err, skip, key, entry]
RefreshLine(line, ts) ==
    LET fields == split(line, ",")
    IN  IF Len(fields) # 4 THEN [err |-> "ValueError", skip |-> FALSE]
        ELSE LET temperature == fields[1]
                 humidity == fields[2]
                 plant_id == fields[3]
                 target == fields[4]
             IN  IF ~isdigit(temperature) THEN [err |-> "None", skip |-> TRUE]
                 ELSE IF \/ int(plant_id).err # "None"
                         \/ int(temperature).err # "None"
                         \/ int(humidity).err # "None"
                         \/ int(strip(target)).err # "None"
                 THEN [err |-> "ValueError", skip |-> FALSE]
                 ELSE [err |-> "None", skip |-> FALSE,
                       key |-> <<ts + RefreshOffset, int(plant_id).val>>,
                       entry |-> [datetime_utc |-> ts + RefreshOffset,
                                  temperature |-> int(temperature).val,
                                  humidity |-> int(humidity).val,
                                  target |-> stored_target(target)]]

(***************************************************************************)
(* The environment: peripherals, scans, sensor payloads, artifacts, CSV    *)
(* sources.                                                                *)
(***************************************************************************)
Uuid(prefix) == prefix \o << "-", "a" >>
cMoisture == [uuid |-> Uuid(_MOISTURE_CHARACTERISTIC_UUID_PREFIX), properties |-> {"read", "notify"}]
cTemperature == [uuid |-> Uuid(_TEMPERATURE_CHARACTERISTIC_UUID_PREFIX), properties |-> {"read"}]
cModel == [uuid |-> Uuid(_MODEL_CHARACTERISTIC_UUID_PREFIX), properties |-> {"write"}]
cMoistureWriteOnly == [uuid |-> Uuid(_MOISTURE_CHARACTERISTIC_UUID_PREFIX), properties |-> {"write"}]
cModelReadOnly == [uuid |-> Uuid(_MODEL_CHARACTERISTIC_UUID_PREFIX), properties |-> {"read"}]
cDeviceName == [uuid |-> Uuid(<< "0", "0", "0", "0", "2", "a", "0", "0" >>), properties |-> {"read"}]

FullPeripheral == << <<cMoisture, cTemperature, cModel>> >>
Peripherals ==
    { FullPeripheral,
      << <<cTemperature, cModel>> >>,
      << <<cMoisture, cModel>> >>,
      << <<cMoisture, cTemperature>> >>,
      << <<cMoistureWriteOnly, cModelReadOnly, cMoisture, cTemperature, cModel>> >>,
      << <<cDeviceName>>, <<cMoisture, cTemperature, cModel>> >>,
      << >> }

\* what BleakScanner.discover() may return
ScanResults ==
    { << >>,
      << [name |-> "Other", address |-> "A0"] >>,
      << [name |-> "Other", address |-> "A0"], [name |-> "AIPlant", address |-> "A1"] >>,
      << [name |-> "AIPlant", address |-> "A1"], [name |-> "AIPlant", address |-> "A2"] >> }

\* sensor payloads
GoodBytes == [moisture |-> << "5", "5" >>, temperature |-> << "2", "1" >>]
SensorBytes ==
    { GoodBytes,
      [moisture |-> << "7" >>, temperature |-> << "3", "0" >>],
      [moisture |-> << >>, temperature |-> << "2", "1" >>] }

\* the readings the payloads stand for, and the classifiers fit() may produce
FeatureValues == { << 21, 55 >>, << 30, 7 >> }
DryClassifier == [v \in FeatureValues |-> v[2] < 30]
Classifiers == { DryClassifier, [v \in FeatureValues |-> ~DryClassifier[v]] }

\* artifacts: the bytes tell the positions of an artifact apart, also at the same
\* offset of two chunks
Artifact(L) == [i \in 1..L |-> (i * 7 + (i - 1) \div 256 + L) % 256]
ArtifactLens ==
    {0, 1} \cup { k * ChunkSize + d : k \in 1..MaxChunks, d \in {-1, 0, 1} }
Artifacts == { Artifact(L) : L \in ArtifactLens }
SmallArtifacts == { Artifact(1), Artifact(ChunkSize + 1) }

\* lines of the CSV source
LineHeader == << "h", "e", "a", "d", "e", "r", "\n" >>
LineColumns == << "t", "e", "m", "p", ",", "h", "u", "m", ",", "i", "d", ",", "o", "n", "\n" >>
LineA == << "2", "0", ",", "5", "0", ",", "1", ",", "1", "\n" >>
LineB == << "2", "1", ",", "4", "9", ",", "1", ",", "0", "\n" >>
LineC == << "2", "2", ",", "4", "8", ",", "2", ",", "1", "\n" >>
LineNegative == << "-", "5", ",", "4", "0", ",", "1", ",", "0", "\n" >>
Lines == { LineHeader, LineColumns, LineA, LineB, LineC, LineNegative }

RECURSIVE SeqsUpTo(_, _)
SeqsUpTo(S, n) ==
    IF n = 0 THEN { << >> }
    ELSE LET shorter == SeqsUpTo(S, n - 1)
         IN  shorter \cup { Append(q, x) : q \in shorter, x \in S }
Files == SeqsUpTo(Lines, MaxLines)
SampleFile == << LineColumns, LineA, LineB >>

\* the clock reading at construction, and the readings that are followed
BootTime == RefreshBase + RefreshOffset
ClockTimes == { BootTime + j * (_TTL - 1) + i : j \in 0..1, i \in 0..MaxTicks }

(***************************************************************************)
(* Initial states: the objects as setup_dependencies() constructs them.    *)
(***************************************************************************)
InitWith(peripherals, payloads, classifiers, files, artifacts) ==
    /\ peripheral \in peripherals
    /\ sensorBytes \in payloads
    /\ svc \in classifiers
    /\ file \in files
    /\ data \in artifacts
    /\ pcStart = "scan"
    /\ startErr = "None"
    /\ _device = "None"
    /\ _client = "None"
    /\ _read_enabled = TRUE
    /\ pcLoop = "off"
    /\ loopErr = "None"
    /\ readStartHeld = {}
    /\ pcUp = [u \in Uploads |-> "idle"]
    /\ upErr = [u \in Uploads |-> "None"]
    /\ idx = [u \in Uploads |-> 0]
    /\ sent = [u \in Uploads |-> << >>]
    /\ lineNo = 0
    /\ timestamp = RefreshBase
    /\ _database = [isNone |-> TRUE, items |-> << >>]
    /\ _real_time_samples = << >>
    /\ now = BootTime

(***************************************************************************)
(* Dependencies.start_up: adapter.connect(), then database.connect()       *)
(***************************************************************************)
Scan_mut ==
    /\ pcStart = "scan"
    /\ \E available_devices \in ScanResults :
          LET hits == { i \in 1..Len(available_devices) :
                          available_devices[i].name = _DEVICE_NAME }
          IN  IF hits = {}
              THEN /\ pcStart' = "failed"
                   /\ startErr' = "DeviceNotFound"
                   /\ UNCHANGED _device
              ELSE /\ _device' = available_devices[CHOOSE i \in hits : \A j \in hits : j <= i].address
                   /\ pcStart' = "init_client"
                   /\ UNCHANGED startErr
    /\ UNCHANGED << peripheral, sensorBytes, svc, _client, _read_enabled,
                    loopVars, upVars, refreshVars, _database, _real_time_samples, now >>

\* connect(): one BleakScanner.discover() and the pass over its result; the last
\* device with the configured name is kept
Scan ==
    /\ pcStart = "scan"
    /\ \E available_devices \in ScanResults :
          LET hits == { i \in 1..Len(available_devices) :
                          available_devices[i].name = _DEVICE_NAME }
          IN  IF hits = {}
              THEN UNCHANGED << _device, pcStart >>
              ELSE /\ _device' = available_devices[CHOOSE i \in hits : \A j \in hits : j <= i].address
                   /\ pcStart' = "init_client"
    /\ UNCHANGED << peripheral, sensorBytes, svc, startErr, _client, _read_enabled,
                    loopVars, upVars, refreshVars, _database, _real_time_samples, now >>

initialize_client_after_connect_mut ==
    IF peripheral = << >> THEN "RuntimeError"
    ELSE IF \/ FirstCharacteristic(peripheral[1], _READ_TYPE, _MOISTURE_CHARACTERISTIC_UUID_PREFIX) = 0
            \/ FirstCharacteristic(peripheral[1], _READ_TYPE, _TEMPERATURE_CHARACTERISTIC_UUID_PREFIX) = 0
            \/ FirstCharacteristic(peripheral[1], _WRITE_TYPE, _MODEL_CHARACTERISTIC_UUID_PREFIX) = 0
    THEN "CharacteristicNotFound"
    ELSE "None"

\* what initialize_client() does once the connection is open: it walks the
\* characteristics of the first service and logs them
initialize_client_after_connect ==
    IF peripheral = << >> THEN "RuntimeError" ELSE "None"

\* initialize_client()
InitializeClient ==
    /\ pcStart = "init_client"
    /\ IF _device = "None"
       THEN /\ pcStart' = "failed"
            /\ startErr' = "RuntimeError"
            /\ UNCHANGED _client
       ELSE \E connected \in BOOLEAN :
               IF ~connected
               THEN /\ _client' = "created"
                    /\ pcStart' = "failed"
                    /\ startErr' = "BleakError"
               ELSE /\ _client' = "connected"
                    /\ startErr' = initialize_client_after_connect
                    /\ pcStart' = IF startErr' = "None" THEN "db_connect" ELSE "failed"
    /\ UNCHANGED << peripheral, sensorBytes, svc, _device, _read_enabled,
                    loopVars, upVars, refreshVars, _database, _real_time_samples, now >>

\* EEPROMDatabase.connect(), up to the first line of refresh()
DatabaseConnect ==
    /\ pcStart = "db_connect"
    /\ _database' = [isNone |-> FALSE, items |-> << >>]
    /\ lineNo' = 0
    /\ timestamp' = RefreshBase
    /\ pcStart' = "refresh"
    /\ UNCHANGED << linkVars, startErr, _read_enabled, loopVars, upVars, file,
                    _real_time_samples, now >>

\* refresh(): one line of the source
RefreshStep ==
    /\ pcStart = "refresh"
    /\ lineNo < Len(file)
    /\ LET r == RefreshLine(file[lineNo + 1], timestamp)
       IN  /\ lineNo' = lineNo + 1
           /\ IF r.err # "None"
              THEN /\ pcStart' = "failed"
                   /\ startErr' = r.err
                   /\ UNCHANGED << timestamp, _database >>
              ELSE IF r.skip
              THEN UNCHANGED << pcStart, startErr, timestamp, _database >>
              ELSE /\ timestamp' = timestamp + RefreshOffset
                   /\ _database' = [_database EXCEPT !.items = DictSet(@, r.key, r.entry)]
                   /\ UNCHANGED << pcStart, startErr >>
    /\ UNCHANGED << linkVars, _read_enabled, loopVars, upVars, file,
                    _real_time_samples, now >>

StartLoop_mut ==
    /\ pcStart = "refresh"
    /\ pcLoop = "off"
    /\ pcLoop' = "get_feature"
    /\ UNCHANGED << linkVars, pcStart, startErr, _read_enabled, loopErr, readStartHeld, upVars,
                    refreshVars, _database, _real_time_samples, now >>

\* the end of refresh() and of connect(): the ingestion loop is scheduled
StartLoop ==
    /\ pcStart = "refresh"
    /\ lineNo = Len(file)
    /\ pcStart' = "ready"
    /\ pcLoop' = "get_feature"
    /\ UNCHANGED << linkVars, startErr, _read_enabled, loopErr, readStartHeld, upVars,
                    refreshVars, _database, _real_time_samples, now >>

(***************************************************************************)
(* The ingestion loop: _loop_tasks, get_feature, read_data                 *)
(***************************************************************************)
\* the uploads that have closed the gate and not re-opened it
Holding == { u \in Uploads : pcUp[u] \notin {"idle", "done"} }

read_permitted_mut == TRUE

\* read_data's loop condition, negated: the gate lets the read through
read_permitted == _read_enabled

\* read_data from its gate check on: wait a second, or resolve the two sensor
\* endpoints and start the pair of reads
ReadDataCheck ==
    IF ~read_permitted
    THEN /\ pcLoop' = "gate_wait"
         /\ UNCHANGED loopErr
    ELSE IF moisture_sensor.err # "None"
    THEN /\ pcLoop' = "dead"
         /\ loopErr' = moisture_sensor.err
    ELSE IF temperature_sensor.err # "None"
    THEN /\ pcLoop' = "dead"
         /\ loopErr' = temperature_sensor.err
    ELSE /\ pcLoop' = "reading"
         /\ UNCHANGED loopErr

\* the loop calls get_feature(), which calls read_data()
LoopGetFeature ==
    /\ pcLoop = "get_feature"
    /\ readStartHeld' = Holding
    /\ ReadDataCheck
    /\ UNCHANGED << linkVars, pcStart, startErr, _read_enabled, upVars, refreshVars,
                    _database, _real_time_samples, now >>

LoopGateWake_mut ==
    /\ pcLoop = "gate_wait"
    /\ UNCHANGED vars

\* read_data wakes from asyncio.sleep(1) and checks the gate again
LoopGateWake ==
    /\ pcLoop = "gate_wait"
    /\ ReadDataCheck
    /\ UNCHANGED << linkVars, pcStart, startErr, _read_enabled, readStartHeld, upVars,
                    refreshVars, _database, _real_time_samples, now >>

\* get_feature(): the Feature built from the two payloads and the clock
get_feature(moisture, temperature, time) ==
    IF float(temperature).err # "None" THEN float(temperature)
    ELSE IF float(moisture).err # "None" THEN float(moisture)
    ELSE Ok([timestamp |-> time,
             temperature |-> float(temperature).val,
             moisture |-> float(moisture).val])

insert_live_mut(links, feature, time) ==
    cache_setitem(links, feature.timestamp - (feature.timestamp % 2),
                  << feature.moisture, feature.temperature >>, time)

\* the loop's insert: self._real_time_samples[feature.timestamp] = (moisture, temperature)
insert_live(links, feature, time) ==
    cache_setitem(links, feature.timestamp, << feature.moisture, feature.temperature >>, time)

LoopReadDone_mut ==
    /\ pcLoop = "reading"
    /\ \E ok \in BOOLEAN :
          IF ~ok
          THEN /\ pcLoop' = "sleep"
               /\ loopErr' = "BleakError"
               /\ UNCHANGED _real_time_samples
          ELSE LET f == get_feature(sensorBytes.moisture, sensorBytes.temperature, now)
               IN  IF f.err # "None"
                   THEN /\ pcLoop' = "sleep"
                        /\ loopErr' = f.err
                        /\ UNCHANGED _real_time_samples
                   ELSE /\ _real_time_samples' = insert_live(_real_time_samples, f.val, now)
                        /\ pcLoop' = "sleep"
                        /\ UNCHANGED loopErr
    /\ UNCHANGED << linkVars, pcStart, startErr, _read_enabled, readStartHeld, upVars,
                    refreshVars, _database, now >>

\* the pair of reads ends: the loop dies on a failed read or a payload that is
\* no number, or inserts the feature and goes to sleep
LoopReadDone ==
    /\ pcLoop = "reading"
    /\ \E ok \in BOOLEAN :
          IF ~ok
          THEN /\ pcLoop' = "dead"
               /\ loopErr' = "BleakError"
               /\ UNCHANGED _real_time_samples
          ELSE LET f == get_feature(sensorBytes.moisture, sensorBytes.temperature, now)
               IN  IF f.err # "None"
                   THEN /\ pcLoop' = "dead"
                        /\ loopErr' = f.err
                        /\ UNCHANGED _real_time_samples
                   ELSE /\ _real_time_samples' = insert_live(_real_time_samples, f.val, now)
                        /\ pcLoop' = "sleep"
                        /\ UNCHANGED loopErr
    /\ UNCHANGED << linkVars, pcStart, startErr, _read_enabled, readStartHeld, upVars,
                    refreshVars, _database, now >>

\* the loop's asyncio.sleep(1) ends
LoopSleepDone ==
    /\ pcLoop = "sleep"
    /\ now + 1 \in ClockTimes
    /\ now' = now + 1
    /\ pcLoop' = "get_feature"
    /\ UNCHANGED << linkVars, pcStart, startErr, _read_enabled, loopErr, readStartHeld,
                    upVars, refreshVars, _database, _real_time_samples >>

(***************************************************************************)
(* send_data                                                               *)
(***************************************************************************)
\* the fragments send_data writes for an artifact that is too big
fragments(d) == chunk_data(d, ChunkSize)

\* send_data's test: len(data) > 512
too_big_mut(d) == Len(d) >= ChunkSize
too_big(d) == Len(d) > ChunkSize

\* send_data up to its first write: the gate is closed, the model endpoint is
\* resolved, and the first chunk or the whole artifact is written
send_data_begin(u) ==
    /\ pcUp[u] = "idle"
    /\ _read_enabled' = FALSE
    /\ IF model_characteristic.err # "None"
       THEN /\ pcUp' = [pcUp EXCEPT ![u] = "failed"]
            /\ upErr' = [upErr EXCEPT ![u] = model_characteristic.err]
            /\ UNCHANGED << idx, sent >>
       ELSE IF too_big(data[u])
       THEN /\ pcUp' = [pcUp EXCEPT ![u] = "write_chunk"]
            /\ idx' = [idx EXCEPT ![u] = 1]
            /\ sent' = [sent EXCEPT ![u] = << fragments(data[u])[1] >>]
            /\ UNCHANGED upErr
       ELSE /\ pcUp' = [pcUp EXCEPT ![u] = "write_whole"]
            /\ sent' = [sent EXCEPT ![u] = << data[u] >>]
            /\ UNCHANGED << upErr, idx >>
    /\ UNCHANGED << linkVars, pcStart, startErr, loopVars, data, refreshVars,
                    _database, _real_time_samples, now >>

\* send_data as a background task of POST /model/send-new-model, served once
\* start_up is over
SendDataBegin(u) ==
    /\ pcStart = "ready"
    /\ send_data_begin(u)

\* what the end of send_data leaves in the gate
gate_after_send == TRUE

WriteAcked_mut(u) ==
    /\ pcUp[u] \in {"write_chunk", "write_end", "write_whole"}
    /\ IF pcUp[u] = "write_chunk" /\ idx[u] < Len(fragments(data[u]))
       THEN /\ idx' = [idx EXCEPT ![u] = idx[u] + 1]
            /\ sent' = [sent EXCEPT ![u] = Append(@, fragments(data[u])[idx[u] + 1])]
            /\ UNCHANGED << pcUp, _read_enabled >>
       ELSE IF pcUp[u] = "write_chunk"
       THEN /\ pcUp' = [pcUp EXCEPT ![u] = "write_end"]
            /\ sent' = [sent EXCEPT ![u] = Append(@, _END_SEQUENCE)]
            /\ UNCHANGED << idx, _read_enabled >>
       ELSE /\ pcUp' = [pcUp EXCEPT ![u] = "done"]
            /\ _read_enabled' = TRUE
            /\ UNCHANGED << idx, sent >>
    /\ UNCHANGED << linkVars, pcStart, startErr, loopVars, upErr, data,
                    refreshVars, _database, _real_time_samples, now >>

\* the peripheral acknowledges the write in flight
WriteAcked(u) ==
    /\ pcUp[u] \in {"write_chunk", "write_end", "write_whole"}
    /\ IF pcUp[u] = "write_chunk"
       THEN /\ pcUp' = [pcUp EXCEPT ![u] = "pace"]
            /\ UNCHANGED _read_enabled
       ELSE /\ pcUp' = [pcUp EXCEPT ![u] = "done"]
            /\ _read_enabled' = gate_after_send
    /\ UNCHANGED << linkVars, pcStart, startErr, loopVars, upErr, data, idx, sent,
                    refreshVars, _database, _real_time_samples, now >>

WriteFailed_mut(u) ==
    /\ pcUp[u] \in {"write_chunk", "write_end", "write_whole"}
    /\ upErr' = [upErr EXCEPT ![u] = "BleakError"]
    /\ IF pcUp[u] = "write_chunk"
       THEN /\ pcUp' = [pcUp EXCEPT ![u] = "pace"]
            /\ UNCHANGED _read_enabled
       ELSE /\ pcUp' = [pcUp EXCEPT ![u] = "done"]
            /\ _read_enabled' = TRUE
    /\ UNCHANGED << linkVars, pcStart, startErr, loopVars, data, idx, sent,
                    refreshVars, _database, _real_time_samples, now >>

\* the write in flight fails: send_data ends with the exception
WriteFailed(u) ==
    /\ pcUp[u] \in {"write_chunk", "write_end", "write_whole"}
    /\ pcUp' = [pcUp EXCEPT ![u] = "failed"]
    /\ upErr' = [upErr EXCEPT ![u] = "BleakError"]
    /\ UNCHANGED << linkVars, pcStart, startErr, _read_enabled, loopVars, data, idx, sent,
                    refreshVars, _database, _real_time_samples, now >>

\* asyncio.sleep(2) ends: the next chunk is written, or after the last chunk
\* the end sequence
PaceDone(u) ==
    /\ pcUp[u] = "pace"
    /\ IF model_characteristic.err # "None"
       THEN /\ pcUp' = [pcUp EXCEPT ![u] = "failed"]
            /\ upErr' = [upErr EXCEPT ![u] = model_characteristic.err]
            /\ UNCHANGED << idx, sent >>
       ELSE IF idx[u] < Len(fragments(data[u]))
       THEN /\ pcUp' = [pcUp EXCEPT ![u] = "write_chunk"]
            /\ idx' = [idx EXCEPT ![u] = idx[u] + 1]
            /\ sent' = [sent EXCEPT ![u] = Append(@, fragments(data[u])[idx[u] + 1])]
            /\ UNCHANGED upErr
       ELSE /\ pcUp' = [pcUp EXCEPT ![u] = "write_end"]
            /\ sent' = [sent EXCEPT ![u] = Append(@, _END_SEQUENCE)]
            /\ UNCHANGED << upErr, idx >>
    /\ UNCHANGED << linkVars, pcStart, startErr, _read_enabled, loopVars, data,
                    refreshVars, _database, _real_time_samples, now >>

(***************************************************************************)
(* Reading the store: real_time_samples, log_status, label_features,       *)
(* get_latest_entry                                                        *)
(***************************************************************************)
real_time_samples_swapped(links, time) ==
    LET items == cache_iter(links, time)
    IN  [i \in 1..Len(items) |->
            [timestamp |-> items[i].key,
             moisture |-> items[i].value[2],
             temperature |-> items[i].value[1]]]

\* EEPROMDatabase.real_time_samples: a Feature per item of the cache
real_time_samples(links, time) ==
    LET items == cache_iter(links, time)
    IN  [i \in 1..Len(items) |->
            [timestamp |-> items[i].key,
             moisture |-> items[i].value[1],
             temperature |-> items[i].value[2]]]

\* Labeler.label_samples: each feature with the label the classifier gives it
label_samples(features) ==
    [i \in 1..Len(features) |->
        << features[i], svc[<< features[i].temperature, features[i].moisture >>] >>]

RECURSIVE load_samples_late(_, _)
load_samples_late(items, samples) ==
    IF samples = << >> THEN items
    ELSE LET sample == Head(samples)
         IN  load_samples_late(
                 DictSet(items, << sample[1].timestamp, 1 >>,
                         [datetime_utc |-> sample[1].timestamp + 1,
                          temperature |-> sample[1].temperature,
                          humidity |-> sample[1].moisture,
                          target |-> sample[2]]),
                 Tail(samples))

RECURSIVE load_samples_mut(_, _)
load_samples_mut(items, samples) ==
    IF samples = << >> THEN items
    ELSE LET sample == Head(samples)
             key == << sample[1].timestamp, 1 >>
         IN  load_samples_mut(
                 IF key \in DictKeys(items) THEN items
                 ELSE DictSet(items, key,
                              [datetime_utc |-> sample[1].timestamp,
                               temperature |-> sample[1].temperature,
                               humidity |-> sample[1].moisture,
                               target |-> sample[2]]),
                 Tail(samples))

\* EEPROMDatabase.load_samples, plat_id = 1
RECURSIVE load_samples(_, _)
load_samples(items, samples) ==
    IF samples = << >> THEN items
    ELSE LET sample == Head(samples)
         IN  load_samples(
                 DictSet(items, << sample[1].timestamp, 1 >>,
                         [datetime_utc |-> sample[1].timestamp,
                          temperature |-> sample[1].temperature,
                          humidity |-> sample[1].moisture,
                          target |-> sample[2]]),
                 Tail(samples))

LabelFeatures_mut ==
    /\ pcStart = "ready"
    /\ IF cache_len(_real_time_samples, now) = 0
       THEN UNCHANGED << _database, _real_time_samples >>
       ELSE /\ _database' = [_database EXCEPT !.items =
                   load_samples(@, label_samples(real_time_samples(_real_time_samples, now)))]
            /\ _real_time_samples' = << >>
    /\ UNCHANGED << linkVars, pcStart, startErr, _read_enabled, loopVars, upVars,
                    refreshVars, now >>

\* GET /model/label: log_status() raises on an empty live region; otherwise the
\* live samples are labelled and loaded into the historical region
LabelFeatures ==
    /\ pcStart = "ready"
    /\ IF cache_len(_real_time_samples, now) = 0
       THEN UNCHANGED _database
       ELSE _database' = [_database EXCEPT !.items =
                load_samples(@, label_samples(real_time_samples(_real_time_samples, now)))]
    /\ UNCHANGED << linkVars, pcStart, startErr, _read_enabled, loopVars, upVars,
                    refreshVars, _real_time_samples, now >>

NoEntry == [found |-> FALSE, entry |-> << >>]

\* EEPROMDatabase.get_entry: self.database.get(key)
get_entry(items, ts, plant_id) ==
    IF << ts, plant_id >> \in DictKeys(items)
    THEN [found |-> TRUE, entry |-> items[DictGet(items, << ts, plant_id >>)].value]
    ELSE NoEntry

get_latest_entry_mut(items, plant_id, ts) ==
    LET entries == SelectSeq(items, LAMBDA it : it.key[2] = plant_id /\ it.key[1] < ts)
        best == CHOOSE i \in 1..Len(entries) :
                    /\ \A j \in 1..Len(entries) :
                          entries[j].value.datetime_utc <= entries[i].value.datetime_utc
                    /\ \A j \in 1..(i - 1) :
                          entries[j].value.datetime_utc < entries[i].value.datetime_utc
    IN  IF entries = << >> THEN NoEntry ELSE [found |-> TRUE, entry |-> entries[best].value]

\* EEPROMDatabase.get_latest_entry: max() keeps the first entry with the greatest
\* datetime_utc
get_latest_entry(items, plant_id, ts) ==
    LET entries == SelectSeq(items, LAMBDA it : it.key[2] = plant_id /\ it.key[1] <= ts)
        best == CHOOSE i \in 1..Len(entries) :
                    /\ \A j \in 1..Len(entries) :
                          entries[j].value.datetime_utc <= entries[i].value.datetime_utc
                    /\ \A j \in 1..(i - 1) :
                          entries[j].value.datetime_utc < entries[i].value.datetime_utc
    IN  IF entries = << >> THEN NoEntry ELSE [found |-> TRUE, entry |-> entries[best].value]

\* time passes, once the store is up: a second, or a second less than the TTL
Tick ==
    /\ pcStart = "ready"
    /\ \E d \in {1, _TTL - 1} :
          /\ now + d \in ClockTimes
          /\ now' = now + d
    /\ UNCHANGED << linkVars, pcStart, startErr, _read_enabled, loopVars, upVars,
                    refreshVars, _database, _real_time_samples >>

(***************************************************************************)
(* The sensors and the wall clock                                          *)
(***************************************************************************)
\* the peripheral's sensors take another reading
SensorChange ==
    /\ pcStart = "ready"
    /\ sensorBytes' \in SensorBytes \ {sensorBytes}
    /\ UNCHANGED << peripheral, svc, _device, _client, pcStart, startErr, _read_enabled,
                    loopVars, upVars, refreshVars, _database, _real_time_samples, now >>

\* the loop's asyncio.sleep(1) ends with datetime.now() in the second it was in
\* when the sleep began: the wall clock was set back meanwhile
LoopSleepSameSecond ==
    /\ pcLoop = "sleep"
    /\ pcLoop' = "get_feature"
    /\ UNCHANGED << linkVars, pcStart, startErr, _read_enabled, loopErr, readStartHeld,
                    upVars, refreshVars, _database, _real_time_samples, now >>

(***************************************************************************)
(* The adapter used before connect() has completed                         *)
(***************************************************************************)
\* a caller awaits get_feature() on an adapter whose connection is not open
GetFeatureCall ==
    /\ _client # "connected"
    /\ pcLoop = "off"
    /\ readStartHeld' = Holding
    /\ ReadDataCheck
    /\ UNCHANGED << linkVars, pcStart, startErr, _read_enabled, upVars, refreshVars,
                    _database, _real_time_samples, now >>

\* a caller awaits send_data(data[u]) on an adapter whose connection is not open
SendDataCall(u) ==
    /\ _client # "connected"
    /\ send_data_begin(u)

(***************************************************************************)
(* Specifications                                                          *)
(***************************************************************************)
StartUp == Scan \/ InitializeClient \/ DatabaseConnect \/ RefreshStep \/ StartLoop
Loop == LoopGetFeature \/ LoopGateWake \/ LoopReadDone \/ LoopSleepDone
Upload(u) == SendDataBegin(u) \/ WriteAcked(u) \/ WriteFailed(u) \/ PaceDone(u)

\* start-up, the ingestion loop and one upload of any artifact
Init == InitWith(Peripherals, {GoodBytes}, {DryClassifier}, {SampleFile},
                 { [u \in Uploads |-> a] : a \in Artifacts })
Next == StartUp \/ Loop \/ Upload(1)
Spec == Init /\ [][Next]_vars

\* the ingestion loop and overlapping uploads on a peripheral with every endpoint
InitOverlap == InitWith({FullPeripheral}, {GoodBytes}, {DryClassifier}, {SampleFile},
                        [Uploads -> SmallArtifacts])
NextOverlap == StartUp \/ Loop \/ (\E u \in Uploads : Upload(u))
SpecOverlap == InitOverlap /\ [][NextOverlap]_vars

\* the adapter alone: connect() in progress or failed, and callers of get_feature
\* and send_data that do not wait for it.  The event loop resumes a read_data
\* call sleeping at the gate.
InitUnconnected == InitWith(Peripherals, {GoodBytes}, {DryClassifier}, {SampleFile},
                            [Uploads -> SmallArtifacts])
NextUnconnected ==
    \/ Scan
    \/ InitializeClient
    \/ GetFeatureCall
    \/ LoopGateWake
    \/ \E u \in Uploads : SendDataCall(u)
SpecUnconnected ==
    InitUnconnected /\ [][NextUnconnected]_vars /\ WF_vars(LoopGateWake)

\* start-up with a peripheral that is eventually in range: connect() scans again
\* after every scan, and some scan returns a device with the configured name
SpecConnect == Init /\ [][StartUp]_vars /\ WF_vars(Scan)

\* start-up, the ingestion loop and one upload under a fair event loop: a
\* read_data call sleeping at the gate is woken, and a pair of reads in flight
\* comes to an end
SpecGate == Init /\ [][Next]_vars /\ WF_vars(LoopGateWake) /\ WF_vars(LoopReadDone)

\* the live region: the ingestion loop with sensors whose readings change and
\* a wall clock that may be set back, and the passing of time
LivePayloads == { b \in SensorBytes : isdigit(b.moisture) /\ isdigit(b.temperature) }
InitLive == InitWith({FullPeripheral}, LivePayloads, {DryClassifier}, {SampleFile},
                     { [u \in Uploads |-> Artifact(1)] })
NextLive ==
    \/ StartUp
    \/ LoopGetFeature
    \/ LoopReadDone
    \/ LoopSleepDone
    \/ LoopSleepSameSecond
    \/ SensorChange
    \/ LabelFeatures
    \/ Tick
SpecLive == InitLive /\ [][NextLive]_vars

\* start-up over every CSV source
InitRefresh == InitWith({FullPeripheral}, {GoodBytes}, {DryClassifier}, Files,
                        { [u \in Uploads |-> Artifact(1)] })
SpecRefresh == InitRefresh /\ [][StartUp]_vars

\* the store: start-up, the ingestion loop, the clock and the labelling of the
\* live samples
StoreFiles == SeqsUpTo({LineA, LineB, LineC}, 2)
InitStore == InitWith({FullPeripheral}, SensorBytes, Classifiers, StoreFiles,
                      { [u \in Uploads |-> Artifact(1)] })
NextStore ==
    StartUp \/ LoopGetFeature \/ LoopReadDone \/ LoopSleepDone \/ LabelFeatures \/ Tick
SpecStore == InitStore /\ [][NextStore]_vars

(***************************************************************************)
(* The gate and the upload                                                 *)
(***************************************************************************)
\* C1: every send_data call ends, on success and on every failure, with the
\* gate in the "reads permitted" state.
C1_UploadEndsWithGateOpen ==
    [][\A u \in Uploads :
          (pcUp[u] \notin {"done", "failed"} /\ pcUp'[u] \in {"done", "failed"})
              => _read_enabled']_vars

\* C2: with one upload, a read_data call that started after the upload closed the
\* gate has its sensor reads in flight only once the upload has re-opened it, and
\* a read_data call waiting at the gate leaves the wait only when it sees the
\* gate open.
C2_ClosedGateHoldsReads ==
    /\ [](pcLoop = "reading" => readStartHeld \cap Holding = {})
    /\ [][(pcLoop = "gate_wait" /\ pcLoop' # "gate_wait") => _read_enabled]_vars

C2_Witness == pcLoop = "reading" /\ readStartHeld # {}

\* C3: a completed upload of an artifact longer than 512 bytes has written
\* ceil(L / 512) data fragments, all of 512 bytes except the last, which has
\* L mod 512 bytes (512 when that is 0), and then the end sequence, once.
C3_ChunkedUpload ==
    \A u \in Uploads :
        (pcUp[u] = "done" /\ Len(data[u]) > 512) =>
            LET L == Len(data[u])
                n == (L + 511) \div 512
            IN  /\ Len(sent[u]) = n + 1
                /\ \A i \in 1..(n - 1) : Len(sent[u][i]) = 512
                /\ Len(sent[u][n]) = (IF L % 512 = 0 THEN 512 ELSE L % 512)
                /\ sent[u][n + 1] = _END_SEQUENCE

C3_Witness ==
    /\ pcUp[1] = "done"
    /\ Len(data[1]) > 2 * 512
    /\ Len(data[1]) % 512 # 0

\* C4: an upload of an artifact of at most 512 bytes writes one fragment, the
\* whole artifact, and no end sequence.
C4_SingleFragment ==
    \A u \in Uploads :
        Len(data[u]) <= 512 =>
            /\ sent[u] \in { << >>, << data[u] >> }
            /\ pcUp[u] = "done" => sent[u] = << data[u] >>

C4_Witness == pcUp[1] = "done" /\ Len(data[1]) = 512

(***************************************************************************)
(* Endpoint lookup and start-up                                            *)
(***************************************************************************)
\* every characteristic the peripheral exposes, over all of its services
RECURSIVE Flatten(_)
Flatten(services) ==
    IF services = << >> THEN << >> ELSE Head(services) \o Flatten(Tail(services))

\* a required role has no matching characteristic anywhere on the peripheral
RoleMissing ==
    \/ FirstCharacteristic(Flatten(peripheral), _READ_TYPE, _MOISTURE_CHARACTERISTIC_UUID_PREFIX) = 0
    \/ FirstCharacteristic(Flatten(peripheral), _READ_TYPE, _TEMPERATURE_CHARACTERISTIC_UUID_PREFIX) = 0
    \/ FirstCharacteristic(Flatten(peripheral), _WRITE_TYPE, _MODEL_CHARACTERISTIC_UUID_PREFIX) = 0

IsDataLine(line) == int(split(line, ",")[1]).err = "None"
DataLines(f) == SelectSeq(f, IsDataLine)
ExpectedKeys(f) ==
    { << RefreshBase + k * RefreshOffset, int(split(DataLines(f)[k], ",")[3]).val >> :
        k \in 1..Len(DataLines(f)) }

\* C5: over a source of header lines (first field no integer) and data lines,
\* refresh() completes, and the historical region then holds one entry per data
\* line, the k-th keyed (1708063280 + 10 k, plantId).
C5_EveryDataLineLoaded ==
    /\ ~(pcStart = "failed" /\ startErr = "ValueError")
    /\ pcStart = "ready" =>
          /\ Len(_database.items) = Len(DataLines(file))
          /\ DictKeys(_database.items) = ExpectedKeys(file)

\* C6: every record refresh() has loaded comes from a line of the source with
\* the same temperature, humidity and plant, and stores FALSE for a raw target
\* of 1 and TRUE for a raw target of 0.
C6_TargetInverted ==
    \A i \in 1..Len(_database.items) :
        LET e == _database.items[i]
        IN  \E n \in 1..lineNo :
               LET f == split(file[n], ",")
               IN  /\ Len(f) = 4
                   /\ \A c \in 1..4 : int(f[c]).err = "None"
                   /\ int(f[1]).val = e.value.temperature
                   /\ int(f[2]).val = e.value.humidity
                   /\ int(f[3]).val = e.key[2]
                   /\ \/ int(f[4]).val = 1 /\ e.value.target = FALSE
                      \/ int(f[4]).val = 0 /\ e.value.target = TRUE

C6_Witness ==
    /\ pcStart = "ready"
    /\ \E i, j \in 1..Len(_database.items) :
          /\ _database.items[i].value.target = TRUE
          /\ _database.items[j].value.target = FALSE

PlantIds == {1, 2, 3}
QueryTimes == { RefreshBase + 5 * i : i \in 0..5 } \cup ClockTimes

\* C7: get_latest_entry(plantId, atOrBefore) returns the entry stored under the
\* key with the greatest timestamp among the keys of that plant with a timestamp
\* <= atOrBefore, and not-found exactly when there is no such key.
C7_LatestAtOrBefore ==
    ~_database.isNone =>
        \A p \in PlantIds, t \in QueryTimes :
            LET items == _database.items
                eligible == { k \in DictKeys(items) : k[2] = p /\ k[1] <= t }
                r == get_latest_entry(items, p, t)
            IN  IF eligible = {} THEN r = NoEntry
                ELSE LET kmax == CHOOSE k \in eligible : \A k2 \in eligible : k2[1] <= k[1]
                     IN  r = [found |-> TRUE, entry |-> items[DictGet(items, kmax)].value]

\* a query answered among at least two eligible entries, with an entry of another
\* plant and a later entry of the same plant in the region
C7_Witness ==
    /\ ~_database.isNone
    /\ \E t \in QueryTimes :
          LET keys == DictKeys(_database.items)
          IN  /\ get_latest_entry(_database.items, 1, t).found
              /\ Cardinality({ k \in keys : k[2] = 1 /\ k[1] <= t }) >= 2
              /\ \E k \in keys : k[2] = 1 /\ k[1] > t
              /\ \E k \in keys : k[2] = 2 /\ k[1] <= t

(***************************************************************************)
(* The live region                                                         *)
(***************************************************************************)
\* the timestamps real_time_samples returns at a time
LiveKeys(links, time) ==
    { real_time_samples(links, time)[i].timestamp :
        i \in 1..Len(real_time_samples(links, time)) }

\* C8: a live entry is inserted under the clock reading t0 of its insert.  It is
\* returned from the insert on, at every time up to t0 + TTL - 1, unless an
\* insert into the full region evicts it, and it is not returned at any time
\* from t0 + TTL + 1 on, purged or not.
C8_LiveEntryTTL ==
    /\ [](\A i \in 1..Len(_real_time_samples) :
            LET t0 == _real_time_samples[i].key
            IN  /\ now <= t0 + _TTL - 1 => t0 \in LiveKeys(_real_time_samples, now)
                /\ now >= t0 + _TTL + 1 => t0 \notin LiveKeys(_real_time_samples, now))
    /\ [][/\ (pcLoop = "reading" /\ pcLoop' = "sleep") =>
                now \in LiveKeys(_real_time_samples', now')
          /\ \A t0 \in LiveKeys(_real_time_samples, now) :
                now' <= t0 + _TTL - 1 =>
                    \/ t0 \in LiveKeys(_real_time_samples', now')
                    \/ /\ _real_time_samples' # _real_time_samples
                       /\ Len(_real_time_samples) >= maxsize]_vars

\* one entry at the last second of its life and returned, another past its TTL,
\* still in the cache and not returned
C8_Witness ==
    \E i, j \in 1..Len(_real_time_samples) :
        /\ now = _real_time_samples[i].key + _TTL - 1
        /\ _real_time_samples[i].key \in LiveKeys(_real_time_samples, now)
        /\ now >= _real_time_samples[j].key + _TTL + 1
        /\ _real_time_samples[j].key \notin LiveKeys(_real_time_samples, now)

\* C9: an insert under a new timestamp into a live region that holds capacity
\* entries, none expired, leaves capacity entries: the ones it held without the
\* oldest-inserted, and the new one.
C9_CapacityEvictsOldest ==
    [][(/\ pcLoop = "reading"
        /\ pcLoop' = "sleep"
        /\ Len(_real_time_samples) = maxsize
        /\ cache_iter(_real_time_samples, now) = _real_time_samples
        /\ now \notin cache_keys(_real_time_samples))
       => LET keys == cache_keys(_real_time_samples)
              oldest == CHOOSE k \in keys : \A k2 \in keys : k <= k2
          IN  /\ Len(_real_time_samples') = maxsize
              /\ cache_keys(_real_time_samples') = (keys \ {oldest}) \cup {now}]_vars

\* the sample of the first second was ingested (it has been labelled into the
\* historical region) and is gone from the full, unexpired live region
C9_Witness ==
    /\ Len(_real_time_samples) = maxsize
    /\ cache_iter(_real_time_samples, now) = _real_time_samples
    /\ BootTime \notin cache_keys(_real_time_samples)
    /\ \E i \in 1..Len(_database.items) :
          /\ _database.items[i].key = << BootTime, 1 >>
          /\ _database.items[i].value.humidity \in {55, 7}

(***************************************************************************)
(* Operations in flight on the connection                                  *)
(***************************************************************************)
\* a write_gatt_char of the send_data call u is awaiting its response
WriteInFlight(u) == pcUp[u] \in {"write_chunk", "write_end", "write_whole"}

\* C11: a fragment write is never in flight while the pair of sensor reads is in
\* flight, and two fragment writes are never in flight together.
C11_PeripheralOpsSerialized ==
    /\ ~(pcLoop = "reading" /\ \E u \in Uploads : WriteInFlight(u))
    /\ \A u, v \in Uploads : (WriteInFlight(u) /\ WriteInFlight(v)) => u = v

(***************************************************************************)
(* The link before it is connected                                         *)
(***************************************************************************)
\* C12: a get_feature or send_data call on a link that is not connected ends with
\* an exception raised to its caller: it never gets as far as a sensor read, a
\* Feature or a write, and once started it does end, with the exception.
C12_UnconnectedCallRaises ==
    /\ [](_client # "connected" =>
            /\ pcLoop \in {"off", "gate_wait", "dead"}
            /\ \A u \in Uploads : pcUp[u] \in {"idle", "failed"} /\ sent[u] = << >>)
    /\ [](pcLoop = "dead" => loopErr # "None")
    /\ [](\A u \in Uploads : pcUp[u] = "failed" => upErr[u] # "None")
    /\ (pcLoop = "gate_wait") ~> (pcLoop = "dead")

(***************************************************************************)
(* connect()                                                               *)
(***************************************************************************)
\* the addresses of the devices that advertise the configured name
TargetAddresses ==
    UNION { { r[i].address : i \in { j \in 1..Len(r) : r[j].name = _DEVICE_NAME } } :
              r \in ScanResults }

\* C13: while connect() scans there is no error, no device and no client; the
\* scan loop is left only for initialize_client(), with a device of the
\* configured name; a client exists only for such a device; and when some scan
\* returns a device of the configured name, connect() gets to initialize_client().
C13_ScanUntilFound ==
    /\ [](pcStart = "scan" => (startErr = "None" /\ _device = "None" /\ _client = "None"))
    /\ [][(pcStart = "scan" /\ pcStart' # "scan") =>
             (pcStart' = "init_client" /\ startErr' = "None" /\ _device' \in TargetAddresses)]_vars
    /\ [](_client # "None" => _device \in TargetAddresses)
    /\ (pcStart = "scan") ~> (pcStart = "init_client")

C13_Witness == _client = "connected" /\ _device = "A2" /\ pcStart = "ready"

(***************************************************************************)
(* Labelled samples merged into the historical region                      *)
(***************************************************************************)
\* the region `after` is the region `before` with the labelled samples merged in:
\* each sample is held under (timestamp, 1) with its temperature, its moisture as
\* humidity and its label; the keys are those of before and of the samples, each
\* once; an entry under any other key is as it was
Absorbed(before, samples, after) ==
    LET keys == { << samples[i][1].timestamp, 1 >> : i \in 1..Len(samples) }
    IN  /\ \A i \in 1..Len(samples) :
              /\ << samples[i][1].timestamp, 1 >> \in DictKeys(after)
              /\ after[DictGet(after, << samples[i][1].timestamp, 1 >>)].value =
                    [datetime_utc |-> samples[i][1].timestamp,
                     temperature |-> samples[i][1].temperature,
                     humidity |-> samples[i][1].moisture,
                     target |-> samples[i][2]]
        /\ DictKeys(after) = DictKeys(before) \cup keys
        /\ Len(after) = Cardinality(DictKeys(after))
        /\ \A j \in 1..Len(before) :
              before[j].key \notin keys => after[DictGet(after, before[j].key)] = before[j]

\* C14: load_samples leaves every absorbed record under (timestamp, plant) with
\* its temperature, moisture and label, overwrites an entry that had the key,
\* and leaves the entries under other keys unchanged: in every state for the
\* live samples labelled now, and on every step of GET /model/label.
C14_AbsorbLabeled ==
    /\ [](~_database.isNone =>
            LET samples == label_samples(real_time_samples(_real_time_samples, now))
            IN  Absorbed(_database.items, samples, load_samples(_database.items, samples)))
    /\ [][(pcStart = "ready" /\ _database' # _database) =>
             Absorbed(_database.items,
                      label_samples(real_time_samples(_real_time_samples, now)),
                      _database'.items)]_vars

\* a record loaded by refresh() was overwritten by a labelled sample with other
\* readings, another loaded record is as loaded, and a sample got a new key
C14_Witness ==
    /\ pcStart = "ready"
    /\ \E i, j, k \in 1..Len(_database.items) :
          /\ _database.items[i].key = << BootTime, 1 >>
          /\ _database.items[i].value.temperature = 30
          /\ _database.items[i].value.humidity = 7
          /\ _database.items[j].key = << BootTime + RefreshOffset, 1 >>
          /\ _database.items[j].value.temperature = 21
          /\ _database.items[j].value.humidity = 49
          /\ _database.items[k].key = << BootTime + 1, 1 >>

(***************************************************************************)
(* A failed fragment write                                                 *)
(***************************************************************************)
\* C15: the step on which a write of an upload fails ends the send_data call
\* with the exception and writes nothing (no retry); a call that has ended with
\* an exception writes nothing more, so what it wrote is a prefix of the chunks
\* followed by the end sequence, cut at the write that failed.
C15_FailedWriteAborts ==
    /\ [](\A u \in Uploads :
            /\ upErr[u] # "None" <=> pcUp[u] = "failed"
            /\ pcUp[u] = "failed" /\ too_big(data[u]) =>
                  /\ Len(sent[u]) <= Len(fragments(data[u])) + 1
                  /\ sent[u] = SubSeq(Append(fragments(data[u]), _END_SEQUENCE),
                                      1, Len(sent[u])))
    /\ [][\A u \in Uploads :
            /\ (WriteInFlight(u) /\ upErr'[u] # "None") =>
                  (pcUp'[u] = "failed" /\ sent'[u] = sent[u])
            /\ pcUp[u] = "failed" =>
                  (pcUp'[u] = "failed" /\ sent'[u] = sent[u] /\ upErr'[u] = upErr[u])]_vars

\* the second of three chunks failed: the third chunk and the end sequence were
\* never written
C15_Witness ==
    /\ pcUp[1] = "failed"
    /\ upErr[1] = "BleakError"
    /\ Len(fragments(data[1])) = 3
    /\ Len(sent[1]) = 2

(***************************************************************************)
(* The order of start-up                                                   *)
(***************************************************************************)
\* C16: the database is connected and loaded only with the device connection
\* open; the ingestion loop has left its start, and the live region holds a
\* sample, only with every line of the source loaded; a step of refresh() and an
\* insert into the live region are never one step, refresh() never runs with the
\* loop started, and the loop never inserts with refresh() unfinished.
C16_StartUpOrder ==
    /\ [](pcStart \in {"db_connect", "refresh", "ready"} => _client = "connected")
    /\ [](~_database.isNone => _client = "connected")
    /\ []((pcLoop # "off" \/ _real_time_samples # << >>) =>
            (pcStart = "ready" /\ lineNo = Len(file)))
    /\ [][/\ lineNo' # lineNo =>
                (pcLoop = "off" /\ _real_time_samples' = << >> /\ _real_time_samples = << >>)
          /\ _real_time_samples' # _real_time_samples =>
                (pcStart = "ready" /\ lineNo = Len(file) /\ lineNo' = lineNo
                    /\ _database' = _database)]_vars

\* the source was loaded, then the loop read and inserted a sample
C16_Witness ==
    /\ pcStart = "ready"
    /\ Len(_database.items) = 2
    /\ pcLoop = "sleep"
    /\ cache_keys(_real_time_samples) = {BootTime}

(***************************************************************************)
(* The gate under overlapping uploads                                      *)
(***************************************************************************)
\* C17: from the start of a send_data call to the acknowledgement of its last
\* fragment the gate denies reads, whatever the loop and other send_data calls do.
C17_GateClosedDuringUpload ==
    \A u \in Uploads :
        pcUp[u] \in {"write_chunk", "pace", "write_end", "write_whole"} => ~_read_enabled

(***************************************************************************)
(* The bytes of an upload                                                  *)
(***************************************************************************)
\* the data fragments a send_data call has written: what it wrote, without the
\* end sequence that follows the ceil(L / 512) chunks
DataFragments(u) ==
    SubSeq(sent[u], 1, Min(Len(sent[u]), (Len(data[u]) + 511) \div 512))

\* C18: for an artifact longer than 512 bytes, the data fragments written so far,
\* concatenated in the order of the writes, are the first bytes of the artifact,
\* and those of a completed upload are the whole artifact; the end sequence
\* comes after them and is no part of them.
C18_FragmentsConcatenate ==
    \A u \in Uploads :
        Len(data[u]) > 512 =>
            LET bytes == Flatten(DataFragments(u))
            IN  /\ Len(bytes) <= Len(data[u])
                /\ bytes = SubSeq(data[u], 1, Len(bytes))
                /\ \A i \in 1..Len(DataFragments(u)) : DataFragments(u)[i] # << >>
                /\ pcUp[u] = "done" =>
                      /\ bytes = data[u]
                      /\ sent[u] = Append(DataFragments(u), _END_SEQUENCE)

C18_Witness ==
    /\ pcUp[1] = "done"
    /\ Len(data[1]) = 2 * 512
    /\ Len(sent[1]) = 3

(***************************************************************************)
(* The pace of an upload                                                   *)
(***************************************************************************)
\* C19: a send_data call issues one write per step, and only at its start or
\* when the sleep after an acknowledged chunk is over; it sleeps only after the
\* acknowledgement of a chunk; and it issues the end sequence only from that
\* sleep, with every chunk written.  So a call never has two writes outstanding.
C19_WritesPaced ==
    /\ [](\A u \in Uploads : WriteInFlight(u) => sent[u] # << >>)
    /\ [][\A u \in Uploads :
            /\ sent'[u] # sent[u] =>
                  /\ Len(sent'[u]) = Len(sent[u]) + 1
                  /\ SubSeq(sent'[u], 1, Len(sent[u])) = sent[u]
                  /\ pcUp[u] \in {"idle", "pace"}
                  /\ pcUp'[u] \in {"write_chunk", "write_end", "write_whole"}
            /\ (pcUp'[u] = "pace" /\ pcUp[u] # "pace") =>
                  (pcUp[u] = "write_chunk" /\ sent'[u] = sent[u])
            /\ (pcUp'[u] = "write_end" /\ pcUp[u] # "write_end") =>
                  /\ pcUp[u] = "pace"
                  /\ Len(sent[u]) = (Len(data[u]) + 511) \div 512
                  /\ sent'[u] = Append(sent[u], _END_SEQUENCE)]_vars

\* the end sequence is in flight after three chunks
C19_Witness ==
    /\ pcUp[1] = "write_end"
    /\ Len(sent[1]) = 4

(***************************************************************************)
(* One iteration of the ingestion loop                                     *)
(***************************************************************************)
\* the newest link of the live region
LastLive(links) == links[Len(links)]

\* C20: the loop starts its reads only from get_feature or from the wait at the
\* gate, with the gate open; the end of the reads either ends the loop or inserts
\* one entry, keyed by the clock reading of the sample and holding its moisture
\* and temperature, and goes to sleep; the live region changes on no other step;
\* and the loop calls get_feature again only from the sleep.
C20_LoopIteration ==
    /\ [](\A i \in 1..Len(_real_time_samples) : _real_time_samples[i].key <= now)
    /\ [][/\ (pcLoop' = "reading" /\ pcLoop # "reading") =>
                (pcLoop \in {"get_feature", "gate_wait"} /\ _read_enabled)
          /\ (pcLoop = "reading" /\ pcLoop' # "reading") =>
                \/ pcLoop' = "dead" /\ loopErr' # "None"
                       /\ _real_time_samples' = _real_time_samples
                \/ /\ pcLoop' = "sleep"
                   /\ _real_time_samples' # << >>
                   /\ LastLive(_real_time_samples').key = now
                   /\ LastLive(_real_time_samples').value =
                         << DecimalValue(sensorBytes.moisture),
                            DecimalValue(sensorBytes.temperature) >>
                   /\ cache_keys(_real_time_samples') \subseteq
                         cache_keys(_real_time_samples) \cup {now}
          /\ _real_time_samples' # _real_time_samples =>
                (pcLoop = "reading" /\ pcLoop' = "sleep")
          /\ (pcLoop' = "get_feature" /\ pcLoop # "get_feature") =>
                (pcLoop \in {"off", "sleep"} /\ _real_time_samples' = _real_time_samples)
          /\ pcLoop = "sleep" => pcLoop' \in {"sleep", "get_feature"}]_vars

\* the second iteration waited at the gate for an upload, then read and inserted
C20_Witness ==
    /\ pcLoop = "sleep"
    /\ readStartHeld # {}
    /\ cache_keys(_real_time_samples) = {BootTime, BootTime + 1}

(***************************************************************************)
(* Waiting at the gate                                                     *)
(***************************************************************************)
\* C21: a read_data call leaves its wait at the gate only on seeing the gate
\* open; when the gate stays open, a call waiting at it leaves the wait; and
\* when moreover the loop never fails, it inserts a sample and goes to sleep.
C21_GateLiveness ==
    /\ [][(pcLoop = "gate_wait" /\ pcLoop' # "gate_wait") => _read_enabled]_vars
    /\ []((pcLoop = "gate_wait" /\ []_read_enabled) => <>(pcLoop # "gate_wait"))
    /\ []((pcLoop = "gate_wait" /\ []_read_enabled /\ [](loopErr = "None")) =>
            <>(pcLoop = "sleep" /\ now \in cache_keys(_real_time_samples)))

\* the upload is over, the gate is open again and the reads of a call that
\* waited for it are in flight
C21_Witness ==
    /\ pcLoop = "reading"
    /\ readStartHeld = {1}
    /\ pcUp[1] = "done"
    /\ _read_enabled

(***************************************************************************)
(* A failed read                                                           *)
(***************************************************************************)
\* C22: the loop has ended exactly when get_feature has raised; the step on which
\* it raises inserts nothing; and from then on the loop starts no read and
\* inserts nothing.
C22_ReadFailureFatal ==
    /\ [](pcLoop = "dead" <=> loopErr # "None")
    /\ [][/\ (pcLoop # "dead" /\ pcLoop' = "dead") =>
                _real_time_samples' = _real_time_samples
          /\ loopErr # "None" =>
                /\ pcLoop' = "dead"
                /\ loopErr' = loopErr
                /\ _real_time_samples' = _real_time_samples]_vars

\* the reads of the second iteration failed: the live region holds the sample
\* of the first, and none of the second
C22_Witness ==
    /\ pcLoop = "dead"
    /\ loopErr = "BleakError"
    /\ now = BootTime + 1
    /\ cache_keys(_real_time_samples) = {BootTime}

(***************************************************************************)
(* Endpoint resolution                                                     *)
(***************************************************************************)
\* with the connection open, the endpoint of a role is the first characteristic
\* of the given access mode and prefix among all the peripheral exposes, and
\* CharacteristicNotFound is raised only when there is none
ResolvesOverAll(endpoint, type, prefix) ==
    LET all == Flatten(peripheral)
        i == FirstCharacteristic(all, type, prefix)
    IN  /\ endpoint.err = "CharacteristicNotFound" => i = 0
        /\ i # 0 => endpoint = Ok(all[i])
        /\ endpoint.err = "None" =>
              (type \in endpoint.val.properties /\ startswith(endpoint.val.uuid, prefix))

\* C23: each of the three endpoints resolves to the first characteristic, over
\* all the services of the connected peripheral, with the role's prefix and
\* access mode; a characteristic without the mode is never chosen; and the loop
\* or an upload ends with CharacteristicNotFound only when no characteristic of
\* the peripheral qualifies.
C23_EndpointOverAllServices ==
    _client = "connected" =>
        /\ ResolvesOverAll(moisture_sensor, _READ_TYPE, _MOISTURE_CHARACTERISTIC_UUID_PREFIX)
        /\ ResolvesOverAll(temperature_sensor, _READ_TYPE, _TEMPERATURE_CHARACTERISTIC_UUID_PREFIX)
        /\ ResolvesOverAll(model_characteristic, _WRITE_TYPE, _MODEL_CHARACTERISTIC_UUID_PREFIX)
        /\ (loopErr = "CharacteristicNotFound" \/ \E u \in Uploads : upErr[u] = "CharacteristicNotFound")
              => RoleMissing

(***************************************************************************)
(* The size of the live region                                             *)
(***************************************************************************)
\* C24: the live region never holds more than capacity entries nor two entries
\* of one timestamp; an insert under a timestamp the region holds leaves that
\* timestamp with the new readings, adds no timestamp and no entry, and leaves
\* the readings of the other entries it keeps as they were.
C24_LiveRegionBounded ==
    /\ [](/\ Len(_real_time_samples) <= maxsize
          /\ Cardinality(cache_keys(_real_time_samples)) = Len(_real_time_samples))
    /\ [][(/\ pcLoop = "reading"
            /\ pcLoop' = "sleep"
            /\ now \in LiveKeys(_real_time_samples, now)) =>
              /\ Len(_real_time_samples') <= Len(_real_time_samples)
              /\ cache_keys(_real_time_samples') \subseteq cache_keys(_real_time_samples)
              /\ LastLive(_real_time_samples').key = now
              /\ LastLive(_real_time_samples').value =
                    << DecimalValue(sensorBytes.moisture),
                       DecimalValue(sensorBytes.temperature) >>
              /\ \A i \in 1..Len(_real_time_samples') :
                    _real_time_samples'[i].key # now =>
                        \E j \in 1..Len(_real_time_samples) :
                            _real_time_samples[j] = _real_time_samples'[i]]_vars

\* the full region holds, under the timestamp of the first sample, other
\* readings than the ones that were labelled into the historical region: the
\* loop has inserted twice under that timestamp
C24_Witness ==
    /\ Len(_real_time_samples) = maxsize
    /\ \E i \in 1..Len(_real_time_samples), j \in 1..Len(_database.items) :
          /\ _real_time_samples[i].key = BootTime
          /\ _real_time_samples[i].value = << 7, 30 >>
          /\ _database.items[j].key = << BootTime, 1 >>
          /\ _database.items[j].value.humidity = 55

(***************************************************************************)
(* Keys and timestamps of the historical region                            *)
(***************************************************************************)
\* C25: every entry of the historical region, loaded by refresh() or by
\* load_samples, stores as datetime_utc the timestamp of its key; so the entry
\* get_latest_entry returns has the greatest key timestamp among the keys of the
\* plant at or before the time asked for.
C25_DatetimeIsKeyTimestamp ==
    ~_database.isNone =>
        /\ \A i \in 1..Len(_database.items) :
              _database.items[i].value.datetime_utc = _database.items[i].key[1]
        /\ \A p \in PlantIds, t \in QueryTimes :
              LET r == get_latest_entry(_database.items, p, t)
              IN  r.found =>
                    /\ << r.entry.datetime_utc, p >> \in DictKeys(_database.items)
                    /\ r.entry.datetime_utc <= t
                    /\ \A k \in DictKeys(_database.items) :
                          (k[2] = p /\ k[1] <= t) => k[1] <= r.entry.datetime_utc

\* the region holds a record loaded by refresh() and a labelled sample
C25_Witness ==
    /\ pcStart = "ready"
    /\ \E i, j \in 1..Len(_database.items) :
          /\ _database.items[i].key[1] = RefreshBase + 2 * RefreshOffset
          /\ _database.items[i].value.humidity <= 50
          /\ _database.items[j].key = << BootTime + 1, 1 >>
          /\ _database.items[j].value.datetime_utc = BootTime + 1

(***************************************************************************)
(* The two regions                                                         *)
(***************************************************************************)
\* C26: a step that changes the live region leaves the historical region, and
\* with it every answer of get_entry and get_latest_entry, as it was; a step
\* that changes the historical region (refresh(), load_samples) leaves the live
\* region as it was.
C26_RegionsIndependent ==
    [][/\ _real_time_samples' # _real_time_samples =>
            /\ _database' = _database
            /\ \A p \in PlantIds, t \in QueryTimes :
                  /\ get_entry(_database'.items, t, p) = get_entry(_database.items, t, p)
                  /\ get_latest_entry(_database'.items, p, t) =
                        get_latest_entry(_database.items, p, t)
       /\ _database' # _database => _real_time_samples' = _real_time_samples]_vars

\* the sample of the first second was absorbed, the sample of the next second
\* is in the live region and get_entry does not find it
C26_Witness ==
    /\ pcStart = "ready"
    /\ BootTime + 1 \in LiveKeys(_real_time_samples, now)
    /\ get_entry(_database.items, BootTime + 1, 1) = NoEntry
    /\ get_entry(_database.items, BootTime, 1).found
    /\ get_entry(_database.items, BootTime, 1).entry.humidity \in {55, 7}
    /\ BootTime \in LiveKeys(_real_time_samples, now)

(***************************************************************************)
(* Reading the live region back                                            *)
(***************************************************************************)
\* the features real_time_samples returns for a timestamp
FeaturesAt(features, ts) == { i \in 1..Len(features) : features[i].timestamp = ts }

\* C27: real_time_samples never returns two features of one timestamp; right
\* after an insert it returns exactly one feature with the timestamp of the
\* sample, whose moisture and temperature are the sample's; and on every step
\* that is no insert under that timestamp, a feature whose entry is still in
\* the live region afterwards is returned again, once and with the same fields.
C27_LiveRoundTrip ==
    /\ [](LET fs == real_time_samples(_real_time_samples, now)
          IN  \A i, j \in 1..Len(fs) : fs[i].timestamp = fs[j].timestamp => i = j)
    /\ [][LET before == real_time_samples(_real_time_samples, now)
              after == real_time_samples(_real_time_samples', now')
              inserted == pcLoop = "reading" /\ pcLoop' = "sleep"
          IN  /\ inserted =>
                    /\ Cardinality(FeaturesAt(after, now)) = 1
                    /\ \A i \in FeaturesAt(after, now) :
                          /\ after[i].moisture = DecimalValue(sensorBytes.moisture)
                          /\ after[i].temperature = DecimalValue(sensorBytes.temperature)
              /\ \A i \in 1..Len(before) :
                    (/\ before[i].timestamp \in LiveKeys(_real_time_samples', now')
                     /\ ~(inserted /\ before[i].timestamp = now)) =>
                        /\ Cardinality(FeaturesAt(after, before[i].timestamp)) = 1
                        /\ \A j \in FeaturesAt(after, before[i].timestamp) :
                              after[j] = before[i]]_vars

\* two samples with different readings are read back, each with its own
\* moisture and temperature
C27_Witness ==
    /\ pcLoop = "sleep"
    /\ LET fs == real_time_samples(_real_time_samples, now)
       IN  /\ Len(fs) = 2
           /\ \E i, j \in 1..Len(fs) :
                 /\ fs[i] = [timestamp |-> BootTime, moisture |-> 55, temperature |-> 21]
                 /\ fs[j] = [timestamp |-> BootTime + 1, moisture |-> 7, temperature |-> 30]

====
